---- MODULE Spec2Model ----
(***************************************************************************)
(* Single-table round-robin scheduler (tt_schedule_or.py).                 *)
(*                                                                         *)
(* schedule_round_robin(n) tries the gap bounds T = 0, 1, ... in turn.  For *)
(* each T it builds a CP-SAT model (boolean variables x[i,j,r], y[i,r] and  *)
(* four families of linear constraints), hands it to the solver and, on a   *)
(* feasible answer, returns T with the sorted, 1-based schedule.            *)
(*                                                                         *)
(* Spec     : the bound search, with the solver as a nondeterministic       *)
(*            oracle over the satisfying assignments of the built model.    *)
(* EncSpec  : the encoder alone, evaluated on arbitrary assignments.        *)
(***************************************************************************)
EXTENDS Integers, Sequences, FiniteSets, TLC

\* Largest participant count explored by the bound search.
MaxN == 4
\* Largest participant count for which the encoder is evaluated on
\* arbitrary (not only solver-produced) assignments.
EncMaxN == 3

VARIABLES
    pc,            \* position in schedule_round_robin / __main__
    n,             \* participant count (argument n)
    time_limit_s,  \* "None" or "set" (argument time_limit_s)
    T,             \* loop variable of `for T in range(M)`
    model,         \* the CpModel under construction / being solved
    calls,         \* log of solver.Solve invocations
    result,        \* return value of schedule_round_robin
    output,        \* what __main__ prints
    assignment,    \* EncSpec: the assignment under evaluation
    sat_at         \* EncSpec: the bounds T at which `assignment` satisfied the model

vars == <<pc, n, time_limit_s, T, model, calls, result, output, assignment, sat_at>>

Range(s) == {s[q] : q \in DOMAIN s}

----------------------------------------------------------------------------
(* Problem data                                                            *)

\* M = n * (n - 1) // 2
NumMatches(k) == (k * (k - 1)) \div 2

\* pairs = [(i, j) for i in range(n) for j in range(i + 1, n)]
PairList(k) ==
    SelectSeq([q \in 1..(k * k) |-> <<(q - 1) \div k, (q - 1) % k>>],
              LAMBDA p : p[1] < p[2])

----------------------------------------------------------------------------
(* Encoder: lines 19-52                                                    *)

\* a CpModel with no variables and no constraints
EmptyModel == [nvars |-> 0, xvars |-> {}, yvars |-> {}, cons |-> <<>>]

\* the previous iteration's model reused instead of a new one
NewModel_keep(old) == old

\* model = cp_model.CpModel(): a new, empty model, whatever the previous one was
NewModel(old) == EmptyModel

\* the NewBoolVar loops: x[(i, j, r)] and y[(i, r)]
NewBoolVars(m, k, M, pairs) ==
    [m EXCEPT !.nvars = @ + Len(pairs) * M + k * M,
              !.xvars = @ \cup {<<pairs[q][1], pairs[q][2], r>> :
                                    q \in 1..Len(pairs), r \in 0..(M - 1)},
              !.yvars = @ \cup ((0..(k - 1)) \X (0..(M - 1)))]

\* constraint 1 left out
MatchOnce_dropped(pairs, M) == <<>>

\* 1) each match exactly once
MatchOnce(pairs, M) ==
    [q \in 1..Len(pairs) |->
        [kind |-> "sum_x_eq_1",
         xs |-> {<<pairs[q][1], pairs[q][2], r>> : r \in 0..(M - 1)},
         ys |-> {}]]

\* 2) only one match per round
RoundExclusive(pairs, M) ==
    [q \in 1..M |->
        [kind |-> "sum_x_eq_1",
         xs |-> {<<pairs[e][1], pairs[e][2], q - 1>> : e \in 1..Len(pairs)},
         ys |-> {}]]

\* only `a == i` tested: matches in which i is the second participant are missed
Linkage_first_only(k, pairs, M) ==
    [q \in 1..(k * M) |->
        LET i == (q - 1) \div M
            r == (q - 1) % M
        IN [kind |-> "sum_x_eq_y",
            xs |-> {<<p[1], p[2], r>> : p \in {e \in Range(pairs) : e[1] = i}},
            ys |-> {<<i, r>>}]]

\* 3) y[i,r] == sum of the matches involving i in round r
Linkage(k, pairs, M) ==
    [q \in 1..(k * M) |->
        LET i == (q - 1) \div M
            r == (q - 1) % M
        IN [kind |-> "sum_x_eq_y",
            xs |-> {<<p[1], p[2], r>> :
                        p \in {e \in Range(pairs) : e[1] = i \/ e[2] = i}},
            ys |-> {<<i, r>>}]]

\* windows of T rounds instead of T + 1
IdleWindows_narrow(k, M, t) ==
    [q \in 1..(k * (M - t)) |->
        LET i == (q - 1) \div (M - t)
            start == (q - 1) % (M - t)
        IN [kind |-> "sum_y_ge_1",
            xs |-> {},
            ys |-> {<<i, start + s>> : s \in 0..(t - 1)}]]

\* the last window left out: start in range(M - T - 1)
IdleWindows_fewer(k, M, t) ==
    [q \in 1..(k * (M - t - 1)) |->
        LET i == (q - 1) \div (M - t - 1)
            start == (q - 1) % (M - t - 1)
        IN [kind |-> "sum_y_ge_1",
            xs |-> {},
            ys |-> {<<i, start + s>> : s \in 0..t}]]

\* the two ranges exchanged: start in range(T + 1), s in range(M - T)
IdleWindows_swapped(k, M, t) ==
    [q \in 1..(k * (t + 1)) |->
        LET i == (q - 1) \div (t + 1)
            start == (q - 1) % (t + 1)
        IN [kind |-> "sum_y_ge_1",
            xs |-> {},
            ys |-> {<<i, start + s>> : s \in 0..(M - t - 1)}]]

\* 4) for start in range(M - T): sum(y[i, start + s] for s in range(T + 1)) >= 1
IdleWindows(k, M, t) ==
    [q \in 1..(k * (M - t)) |->
        LET i == (q - 1) \div (M - t)
            start == (q - 1) % (M - t)
        IN [kind |-> "sum_y_ge_1",
            xs |-> {},
            ys |-> {<<i, start + s>> : s \in 0..t}]]

\* the body of one loop iteration up to the solve: lines 19-52
Encode(old, k, t) ==
    LET M == NumMatches(k)
        pairs == PairList(k)
        m0 == NewBoolVars(NewModel(old), k, M, pairs)
    IN [m0 EXCEPT !.cons = @ \o MatchOnce(pairs, M) \o RoundExclusive(pairs, M)
                             \o Linkage(k, pairs, M) \o IdleWindows(k, M, t)]

----------------------------------------------------------------------------
(* Solver: the external CP-SAT engine, by its contract                     *)

\* a linear constraint under a total assignment (xT, yT: the true variables)
Holds(c, xT, yT) ==
    LET cx == Cardinality(c.xs \cap xT)
        cy == Cardinality(c.ys \cap yT)
    IN CASE c.kind = "sum_x_eq_1" -> cx = 1
         [] c.kind = "sum_x_eq_y" -> cx = cy
         [] c.kind = "sum_y_ge_1" -> cy >= 1

Sat(m, a) == \A q \in DOMAIN m.cons : Holds(m.cons[q], a.x, a.y)

\* c fails under every completion of a partial assignment that has decided
\* the x variables of rounds < rx and the y variables of rounds < ry
CannotHold(c, rx, ry, xT, yT) ==
    LET cx == Cardinality(c.xs \cap xT)
        cy == Cardinality(c.ys \cap yT)
        ox == Cardinality({v \in c.xs : v[3] >= rx})
        oy == Cardinality({v \in c.ys : v[2] >= ry})
    IN CASE c.kind = "sum_x_eq_1" -> cx > 1 \/ cx + ox < 1
         [] c.kind = "sum_x_eq_y" -> cx > cy + oy \/ cx + ox < cy
         [] c.kind = "sum_y_ge_1" -> cy + oy < 1

NumRounds(m) == Cardinality({v[3] : v \in m.xvars} \cup {v[2] : v \in m.yvars})

\* round-by-round enumeration of the total assignments no constraint rules out
RECURSIVE Search(_, _, _, _)
Search(m, r, xT, yT) ==
    IF r = NumRounds(m) THEN {[x |-> xT, y |-> yT]}
    ELSE
      LET touching == {c \in Range(m.cons) :
                          (\E v \in c.xs : v[3] = r) \/ (\E v \in c.ys : v[2] = r)}
          \* the constraints whose variables are all decided once the x
          \* (x and y) variables of round r are
          closedX == {c \in touching : c.ys = {} /\ \A v \in c.xs : v[3] <= r}
          closedXY == {c \in touching :
                          (\A v \in c.xs : v[3] <= r) /\ (\A v \in c.ys : v[2] <= r)}
          openX == touching \ closedX
          openXY == touching \ closedXY
          xr == {v \in m.xvars : v[3] = r}
          yr == {v \in m.yvars : v[2] = r}
          xChoices == {xs \in {s \in SUBSET xr : \A c \in closedX : Holds(c, xT \cup s, yT)} :
                          \A c \in openX :
                              ~CannotHold(c, r + 1, r, xT \cup xs, yT)}
          yChoices(xs) == {ys \in {s \in SUBSET yr :
                                      \A c \in closedXY : Holds(c, xT \cup xs, yT \cup s)} :
                          \A c \in openXY :
                              ~CannotHold(c, r + 1, r + 1, xT \cup xs, yT \cup ys)}
      IN UNION {UNION {Search(m, r + 1, xT \cup xs, yT \cup ys) : ys \in yChoices(xs)} :
                    xs \in xChoices}

\* the satisfying assignments of a model
Solutions(m) == {a \in Search(m, 0, {}, {}) : Sat(m, a)}

----------------------------------------------------------------------------
(* Schedule extraction: lines 62-67                                        *)

\* the triples left 0-based: (r, i, j)
ExtractSchedule_zero_based(a) == {<<v[3], v[1], v[2]>> : v \in a.x}

\* schedule.append((r + 1, i + 1, j + 1)) for every x[(i, j, r)] with value 1
ExtractSchedule(a) == {<<v[3] + 1, v[1] + 1, v[2] + 1>> : v \in a.x}

\* tuple order of Python
TupleLess(a, b) ==
    \/ a[1] < b[1]
    \/ a[1] = b[1] /\ a[2] < b[2]
    \/ a[1] = b[1] /\ a[2] = b[2] /\ a[3] < b[3]

\* sorted(schedule)
RECURSIVE Sorted(_)
Sorted(S) ==
    IF S = {} THEN <<>>
    ELSE LET lo == CHOOSE e \in S : \A f \in S : f = e \/ TupleLess(e, f)
         IN <<lo>> \o Sorted(S \ {lo})

----------------------------------------------------------------------------
(* The bound search: schedule_round_robin and __main__                     *)

Unset == [kind |-> "unset", T |-> 0, schedule |-> <<>>]
None == [kind |-> "None", T |-> 0, schedule |-> <<>>]
NoAssignment == [x |-> {}, y |-> {}]

\* for T in range(M - 1)
LoopBound_short(M) == M - 1

\* for T in range(M)
LoopBound(M) == M

\* status in (cp_model.OPTIMAL, cp_model.FEASIBLE)
IsFeasibleStatus(s) == s \in {"OPTIMAL", "FEASIBLE"}

Init ==
    /\ pc = "loop"
    /\ n \in 0..MaxN
    /\ time_limit_s \in {"None", "set"}
    /\ T = 0
    /\ model = EmptyModel
    /\ calls = <<>>
    /\ result = Unset
    /\ output = ""
    /\ assignment = NoAssignment
    /\ sat_at = {}

\* lines 18-52: enter the loop body for T and build its model
Build ==
    /\ pc = "loop"
    /\ T < LoopBound(NumMatches(n))
    /\ model' = Encode(model, n, T)
    /\ pc' = "solve"
    /\ UNCHANGED <<n, time_limit_s, T, calls, result, output, assignment, sat_at>>

\* one solver.Solve(model) invocation, as logged
Call(s) == [T |-> T, status |-> s, nvars |-> model.nvars, ncons |-> Len(model.cons)]

\* lines 60-67: what the loop body does with the solver's answer
Resolve(s, a) ==
    /\ calls' = Append(calls, Call(s))
    /\ result' = IF IsFeasibleStatus(s)
                 THEN [kind |-> "tuple", T |-> T, schedule |-> Sorted(ExtractSchedule(a))]
                 ELSE result
    /\ pc' = IF IsFeasibleStatus(s) THEN "returned" ELSE "loop"
    /\ T' = IF IsFeasibleStatus(s) THEN T ELSE T + 1
    /\ UNCHANGED <<n, time_limit_s, model, output, assignment, sat_at>>

\* lines 55-67: solve the model of this iteration.  The solver answers
\* OPTIMAL/FEASIBLE with a satisfying assignment, INFEASIBLE when there is
\* none, or UNKNOWN when max_time_in_seconds (set only if time_limit_s is not
\* None) expires first.
Solve ==
    /\ pc = "solve"
    /\ LET sols == Solutions(model)
       IN \/ \E a \in sols, s \in {"OPTIMAL", "FEASIBLE"} : Resolve(s, a)
          \/ sols = {} /\ Resolve("INFEASIBLE", NoAssignment)
          \/ time_limit_s # "None" /\ Resolve("UNKNOWN", NoAssignment)

\* line 70: the loop is exhausted
ReturnNone ==
    /\ pc = "loop"
    /\ ~(T < LoopBound(NumMatches(n)))
    /\ result' = None
    /\ pc' = "returned"
    /\ UNCHANGED <<n, time_limit_s, T, model, calls, output, assignment, sat_at>>

\* lines 78-93: a tuple is truthy, None is not
Main ==
    /\ pc = "returned"
    /\ output' = IF result.kind = "tuple" THEN "schedule"
                 ELSE "No feasible schedule found within the time limit."
    /\ pc' = "done"
    /\ UNCHANGED <<n, time_limit_s, T, model, calls, result, assignment, sat_at>>

Next == Build \/ Solve \/ ReturnNone \/ Main

Spec == Init /\ [][Next]_vars

----------------------------------------------------------------------------
(* The encoder alone, on arbitrary assignments                             *)

\* the y assignment the linkage constraint fixes when no participant has two
\* matches in a round
PlaysOf(xs) == {<<v[1], v[3]>> : v \in xs} \cup {<<v[2], v[3]>> : v \in xs}

\* every assignment of the x variables, each with the y assignment read off
\* from it and with every y assignment differing from that in one variable
EncAssignments(m) ==
    UNION {{[x |-> xs, y |-> ys] :
               ys \in {PlaysOf(xs)} \cup
                      {(PlaysOf(xs) \ {v}) \cup ({v} \ PlaysOf(xs)) : v \in m.yvars}} :
           xs \in SUBSET m.xvars}

EncInit ==
    /\ pc = "enc_built"
    /\ n \in 2..EncMaxN
    /\ time_limit_s = "None"
    /\ T = 0
    /\ model = Encode(EmptyModel, n, 0)
    /\ calls = <<>>
    /\ result = Unset
    /\ output = ""
    /\ assignment \in EncAssignments(model)
    /\ sat_at = {}

\* evaluate the constraints built for (n, T) on the assignment
EncEvaluate ==
    /\ pc = "enc_built"
    /\ sat_at' = IF Sat(model, assignment) THEN sat_at \cup {T} ELSE sat_at
    /\ pc' = "enc_checked"
    /\ UNCHANGED <<n, time_limit_s, T, model, calls, result, output, assignment>>

\* build the model of the next bound, as the next loop iteration does
EncWiden ==
    /\ pc = "enc_checked"
    /\ T + 1 < LoopBound(NumMatches(n))
    /\ T' = T + 1
    /\ model' = Encode(model, n, T + 1)
    /\ pc' = "enc_built"
    /\ UNCHANGED <<n, time_limit_s, calls, result, output, assignment, sat_at>>

EncNext == EncEvaluate \/ EncWiden

EncSpec == EncInit /\ [][EncNext]_vars

----------------------------------------------------------------------------
(* Vocabulary of the properties                                            *)

Returned == pc \in {"returned", "done"}

NoUnknown == \A q \in DOMAIN calls : calls[q].status # "UNKNOWN"

\* participant p (1-based) plays in round r (1-based) of a returned schedule
PlaysRound(sched, p, r) ==
    \E q \in DOMAIN sched : sched[q][1] = r /\ (sched[q][2] = p \/ sched[q][3] = p)

\* every participant plays in every window of t+1 consecutive rounds
GapAtMost(sched, k, t) ==
    \A p \in 1..k : \A start \in 1..(NumMatches(k) - t) :
        \E r \in start..(start + t) : PlaysRound(sched, p, r)

\* the matches of k participants, as unordered pairs
MatchSet(k) == {{a, b} : a \in 1..k, b \in 1..k} \ {{a} : a \in 1..k}

\* every single round-robin schedule: a bijection rounds -> matches
AllSchedules(k) ==
    {f \in [1..NumMatches(k) -> MatchSet(k)] :
        \A r1 \in DOMAIN f, r2 \in DOMAIN f : f[r1] = f[r2] => r1 = r2}

\* no participant sits out t+1 consecutive rounds of schedule f
NoLongIdle(f, k, t) ==
    \A p \in 1..k :
        ~\E a \in DOMAIN f, b \in DOMAIN f : b - a >= t /\ \A r \in a..b : p \notin f[r]

\* AllSchedules, tabulated
SchedulesOf[k \in 2..MaxN] == AllSchedules(k)

\* for each k, the bounds t some single round-robin schedule achieves
FeasibleBounds[k \in 2..MaxN] ==
    {t \in 0..(NumMatches(k) - 1) : \E f \in SchedulesOf[k] : NoLongIdle(f, k, t)}

Least(S) == CHOOSE a \in S : \A b \in S : a <= b
Greatest(S) == CHOOSE a \in S : \A b \in S : b <= a

\* schedule f as an assignment of the model's (0-based) variables
AssignmentOf(f) ==
    LET xs == {<<Least(f[r]) - 1, Greatest(f[r]) - 1, r - 1>> : r \in DOMAIN f}
    IN [x |-> xs, y |-> PlaysOf(xs)]

----------------------------------------------------------------------------
(* Properties                                                              *)

\* C1: for n >= 2 and a solver that never answers UNKNOWN, the search returns
\* (T_min, schedule) where every participant plays in every window of T_min+1
\* consecutive rounds, and no single round-robin schedule achieves a smaller
\* bound.
C1_Optimal ==
    (Returned /\ n >= 2 /\ NoUnknown) =>
        /\ result.kind = "tuple"
        /\ GapAtMost(result.schedule, n, result.T)
        /\ \A t \in 0..(result.T - 1) : t \notin FeasibleBounds[n]

C1_Witness ==
    /\ pc = "done" /\ n = 4 /\ NoUnknown /\ Len(calls) = 3
    /\ result.kind = "tuple" /\ result.T = 2

\* C2: every returned schedule has exactly M entries, every unordered pair of
\* distinct participants in exactly one entry and every round in exactly one
\* entry (participants and rounds as numbered in the returned triples).
C2_Bijection ==
    (Returned /\ result.kind = "tuple") =>
        LET sched == result.schedule
            M == NumMatches(n)
        IN /\ n >= 2
           /\ Len(sched) = M
           /\ \A a \in 1..n, b \in 1..n :
                 a < b => Cardinality({q \in DOMAIN sched :
                                          {sched[q][2], sched[q][3]} = {a, b}}) = 1
           /\ \A r \in 1..M : Cardinality({q \in DOMAIN sched : sched[q][1] = r}) = 1

C2_Witness ==
    /\ Returned /\ n = 4 /\ ~NoUnknown
    /\ result.kind = "tuple" /\ result.T = 5 /\ Len(result.schedule) = 6

\* C3: an UNKNOWN answer ends the search (no attempt follows it) in an
\* Inconclusive outcome, distinct from a schedule and from "no schedule".
C3_UnknownIsInconclusive ==
    /\ \A q \in DOMAIN calls : calls[q].status = "UNKNOWN" => q = Len(calls)
    /\ (Returned /\ ~NoUnknown) => result.kind = "Inconclusive"

\* C4 as stated: for n = 4 the search returns T_min = 1 and every participant
\* plays in at least one of every 2 consecutive rounds.
C4_Original ==
    (Returned /\ n = 4 /\ NoUnknown) =>
        /\ result.kind = "tuple"
        /\ result.T = 1
        /\ GapAtMost(result.schedule, 4, 1)

\* C4 as amended: for n = 4 the search returns T_min = 2 and every participant
\* plays in at least one of every 3 consecutive rounds.
C4_FourPlayers ==
    (Returned /\ n = 4 /\ NoUnknown) =>
        /\ result.kind = "tuple"
        /\ result.T = 2
        /\ GapAtMost(result.schedule, 4, 2)

C4_Witness ==
    /\ pc = "returned" /\ n = 4 /\ time_limit_s = "None"
    /\ result.kind = "tuple" /\ Len(result.schedule) = 6

\* C5: n < 2 is rejected as InvalidInput, an outcome distinct from a schedule
\* and from the exhausted-search outcome, before any model is built and
\* without a solver invocation.
C5_InvalidInputRejected ==
    (Returned /\ n < 2) =>
        /\ result.kind = "InvalidInput"
        /\ calls = <<>>
        /\ model = EmptyModel

\* steps the search can still take: every step of the loop lowers it
Rank ==
    CASE pc = "loop" -> 2 * (NumMatches(n) - T) + 2
      [] pc = "solve" -> 2 * (NumMatches(n) - T) + 1
      [] pc = "returned" -> 1
      [] OTHER -> 0

\* C6: the model built for T = M-1 is satisfied by every bijection of matches
\* to rounds, and with a solver that never answers UNKNOWN the search ends by
\* returning (T, schedule) with T <= M-1, never the fall-through None; it
\* ends because every step lowers a rank that stays non-negative.
C6_TopBound ==
    /\ [](/\ (pc = "solve" /\ T = NumMatches(n) - 1) =>
                \A f \in SchedulesOf[n] : Sat(model, AssignmentOf(f))
          /\ (Returned /\ n >= 2 /\ NoUnknown) =>
                (result.kind = "tuple" /\ result.T <= NumMatches(n) - 1)
          /\ Rank >= 0)
    /\ [][Rank' < Rank]_vars

C6_Witness ==
    /\ pc = "done" /\ n = 2 /\ NoUnknown
    /\ result.kind = "tuple" /\ result.T = NumMatches(n) - 1

\* C7: an assignment that satisfies the model built for (n, T) satisfies the
\* model built for every larger bound T' < M.
C7_Monotone ==
    LET evaluated == IF pc = "enc_checked" THEN T ELSE T - 1
    IN \A t \in sat_at : \A u \in t..evaluated : u \in sat_at

C7_Witness ==
    /\ pc = "enc_checked" /\ n = 3 /\ T = 2 /\ sat_at = {1, 2}

IsBijection(xs, k) ==
    LET M == NumMatches(k)
    IN /\ \A i \in 0..(k - 1), j \in 0..(k - 1) :
             i < j => Cardinality({r \in 0..(M - 1) : <<i, j, r>> \in xs}) = 1
       /\ \A r \in 0..(M - 1) : Cardinality({v \in xs : v[3] = r}) = 1

\* some participant is absent from t+1 consecutive rounds a..a+t of [0, M)
HasIdleRun(xs, k, t) ==
    \E p \in 0..(k - 1), a \in 0..(NumMatches(k) - 1) :
        /\ a + t <= NumMatches(k) - 1
        /\ \A r \in a..(a + t) : ~\E v \in xs : v[3] = r /\ (v[1] = p \/ v[2] = p)

\* C9: an assignment satisfies the model built for (n, T) exactly when x is a
\* bijection between matches and rounds, y is the participation read off from
\* x, and no participant is absent for T+1 consecutive rounds anywhere in
\* [0, M); the windows constrained are exactly those starting in [0, M-T-1].
C9_EncoderExact ==
    /\ pc = "enc_checked" =>
          ((T \in sat_at) <=>
              /\ IsBijection(assignment.x, n)
              /\ assignment.y = PlaysOf(assignment.x)
              /\ ~HasIdleRun(assignment.x, n, T))
    /\ {c.ys : c \in {d \in Range(model.cons) : d.kind = "sum_y_ge_1"}}
          = {{<<p, r>> : r \in a..(a + T)} :
                 p \in 0..(n - 1), a \in 0..(NumMatches(n) - T - 1)}
    /\ \A c \in Range(model.cons) : c.ys \subseteq model.yvars /\ c.xs \subseteq model.xvars

C9_Witness ==
    /\ pc = "enc_checked" /\ n = 3 /\ T = 0 /\ sat_at = {}
    /\ IsBijection(assignment.x, n) /\ assignment.y = PlaysOf(assignment.x)

\* C10: the solver is invoked for T = 0, 1, 2, ... in this order, each attempt
\* after the previous one resolved without a feasible answer, never after a
\* feasible answer, and each on a model holding only the variables and
\* constraints built for its own T.
C10_Sequential ==
    LET M == NumMatches(n)
    IN /\ \A q \in DOMAIN calls :
             /\ calls[q].T = q - 1
             /\ q < Len(calls) => ~IsFeasibleStatus(calls[q].status)
             /\ calls[q].nvars = M * M + n * M
             /\ calls[q].ncons = M + M + n * M + n * (M - calls[q].T)
       /\ pc = "solve" => Len(calls) = T
       /\ (calls # <<>> /\ IsFeasibleStatus(calls[Len(calls)].status)) =>
             (Returned /\ result.kind = "tuple" /\ result.T = Len(calls) - 1)

C10_Witness ==
    /\ n = 4 /\ Len(calls) = 4 /\ calls[2].status = "UNKNOWN"
    /\ calls[3].status = "INFEASIBLE" \/ calls[3].status = "UNKNOWN"
    /\ IsFeasibleStatus(calls[4].status)

====
